---- MODULE Spec2Model ----
(***************************************************************************)
(* x-news-crawler: the signal-ingestion-and-alerting pipeline.             *)
(*                                                                         *)
(*   - the alert engine (lib/alerts/engine): detectSpike,                  *)
(*     evaluateCondition, evaluateAlert, executeAction, triggerAlert and   *)
(*     the AlertEngine class with its monitoring timer;                    *)
(*   - the source resolver (app/api/tweets/route GET) with the RSS fan-out *)
(*     (fetchAllRssFeeds, filterByKeywords), the NewsAPI and X API tiers   *)
(*     and the mock tier.                                                  *)
(*                                                                         *)
(*   - the velocity histories: the useVelocityStore store, the dashboard   *)
(*     page's velocityData and the useVelocityStream hook;                 *)
(*   - the user interface state: the alert store with its creation form,   *)
(*     the mock stream, and the tweet list of the dashboard page.          *)
(*                                                                         *)
(* SpecEngine is the state machine of one AlertEngine instance,            *)
(* SpecOverlap the same engine with its timer firing during an await,      *)
(* SpecResolver the state machine of one GET request after the other,      *)
(* SpecResolverTimed the resolver with the fairness its timeouts give,     *)
(* SpecVelocityStore and SpecVelocityViews those of the histories;         *)
(* SpecDetector applies detectSpike and SpecEvaluator evaluateCondition    *)
(* to the Context of the engine; SpecAlertStore, SpecMockStream and        *)
(* SpecDashboard are the state machines of the user interface state.       *)
(***************************************************************************)
EXTENDS Integers, Sequences, FiniteSets, TLC

\* ------------------------------------------------------------------------
\* Bounds of the model
\* ------------------------------------------------------------------------

\* number of checkAlerts invocations that may be suspended at the same time
MaxInFlight == 1

\* length of the alert list handed to setAlerts
MaxAlerts == 2

\* number of snapshots appended to a history one after the other: to the
\* store since it was cleared or set, to a view beyond its capacity
MaxAppends == 3

\* length of the snapshot history the spike detector is applied to
MaxHistory == 4

\* ------------------------------------------------------------------------
\* Strings: a string is a sequence of one-character strings
\* ------------------------------------------------------------------------

Min(a, b) == IF a < b THEN a ELSE b

\* String.prototype.toLowerCase on one character of the model's alphabet
LowerChar(c) ==
    CASE c = "B" -> "b"
      [] c = "T" -> "t"
      [] c = "C" -> "c"
      [] c = "E" -> "e"
      [] c = "H" -> "h"
      [] OTHER -> c

toLowerCase(s) == [i \in 1..Len(s) |-> LowerChar(s[i])]

\* String.prototype.includes: kw occurs in s as a contiguous substring
includes(s, kw) ==
    \E i \in 0..(Len(s) - Len(kw)) : SubSeq(s, i + 1, i + Len(kw)) = kw

\* Array.prototype.slice(0, n) for n >= 0
Take(s, n) == SubSeq(s, 1, Min(n, Len(s)))

\* optional fields (threshold?, sentiment?): <<>> is undefined, <<v>> is v
None == <<>>

Some(v) == <<v>>

RECURSIVE SumSeq(_)
SumSeq(s) == IF s = <<>> THEN 0 ELSE s[1] + SumSeq(Tail(s))

\* ------------------------------------------------------------------------
\* Spike detection
\* ------------------------------------------------------------------------

\* snapshots.map((s) => s.count)
Counts(snapshots) == [i \in 1..Len(snapshots) |-> snapshots[i].count]

\* the relative tiers with the bounds excluded
RelativeSeverityExclusive(num, den) ==
    IF num > 500 * den THEN "critical"
    ELSE IF num > 400 * den THEN "high"
    ELSE IF num > 300 * den THEN "medium"
    ELSE "low"

\* severity of the relative branch; pct = num / den with den > 0
RelativeSeverity(num, den) ==
    IF num >= 500 * den THEN "critical"
    ELSE IF num >= 400 * den THEN "high"
    ELSE IF num >= 300 * den THEN "medium"
    ELSE "low"

\* the absolute tiers with the bounds included
AbsoluteSeverityInclusive(recentCount) ==
    IF recentCount >= 50 THEN "high"
    ELSE IF recentCount >= 20 THEN "medium"
    ELSE "low"

\* severity of the absolute branch (averageCount === 0)
AbsoluteSeverity(recentCount) ==
    IF recentCount > 50 THEN "high"
    ELSE IF recentCount > 20 THEN "medium"
    ELSE "low"

\* the threshold excluded
IsRelativeSpikeStrict(num, den, thresholdPercent) == num > thresholdPercent * den

\* percentageIncrease >= thresholdPercent; pct = num / den with den > 0
IsRelativeSpike(num, den, thresholdPercent) == num >= thresholdPercent * den

\* a guard that lets a single snapshot through
TooShortEmptyOnly(snapshots) == Len(snapshots) < 1

\* snapshots.length < 2
TooShort(snapshots) == Len(snapshots) < 2

\* detectSpike(snapshots, thresholdPercent).  The two quotients of the code
\* are kept as exact fractions: averageCount = avgNum / avgDen and
\* percentageIncrease = pctNum / pctDen.
detectSpike(snapshots, thresholdPercent) ==
    IF TooShort(snapshots)
    THEN [isSpike |-> FALSE, severity |-> "low",
          pctNum |-> 0, pctDen |-> 1,
          currentCount |-> IF Len(snapshots) = 0 THEN 0 ELSE snapshots[1].count,
          avgNum |-> 0, avgDen |-> 1]
    ELSE LET recentCount == snapshots[Len(snapshots)].count
             previousCounts == Counts(SubSeq(snapshots, 1, Len(snapshots) - 1))
             total == SumSeq(previousCounts)
             n == Len(previousCounts)
         IN IF total = 0
            THEN [isSpike |-> recentCount > 10,
                  severity |-> AbsoluteSeverity(recentCount),
                  pctNum |-> 100, pctDen |-> 1,
                  currentCount |-> recentCount,
                  avgNum |-> 0, avgDen |-> 1]
            ELSE LET num == (recentCount * n - total) * 100
                 IN [isSpike |-> IsRelativeSpike(num, total, thresholdPercent),
                     severity |-> RelativeSeverity(num, total),
                     pctNum |-> num, pctDen |-> total,
                     currentCount |-> recentCount,
                     avgNum |-> total, avgDen |-> n]

\* ------------------------------------------------------------------------
\* Alert condition evaluation.  An evaluation yields "true", "false" or
\* "throw" (a TypeError that leaves the function).
\* ------------------------------------------------------------------------

\* x || d on an optional number: undefined and 0 both give the default
OrDefault(opt, d) == IF opt = None \/ opt[1] = 0 THEN d ELSE opt[1]

Abs(x) == IF x < 0 THEN 0 - x ELSE x

\* sum of the scores of the tweets that carry sentiment (scores in 1/100)
RECURSIVE SentimentSum(_)
SentimentSum(tweets) ==
    IF tweets = <<>> THEN 0
    ELSE (IF tweets[1].sentiment = None THEN 0 ELSE tweets[1].sentiment[1])
         + SentimentSum(Tail(tweets))

\* the match without lower-casing the text of the tweet
KeywordHitCaseSensitive(tweets, keywords) ==
    \E i \in 1..Len(tweets) : \E k \in 1..Len(keywords) :
        includes(tweets[i].text, keywords[k])

\* recentTweets.some(tweet => keywords.some(kw => text.includes(kw)))
KeywordHit(tweets, keywords) ==
    \E i \in 1..Len(tweets) : \E k \in 1..Len(keywords) :
        includes(toLowerCase(tweets[i].text), keywords[k])

\* number of tweets whose category is one of the configured categories
CategoryCount(tweets, categories) ==
    Cardinality({i \in 1..Len(tweets) :
        /\ tweets[i].category # None
        /\ \E k \in 1..Len(categories) : categories[k] = tweets[i].category[1]})

evaluateCondition(condition, context) ==
    CASE condition.type = "velocity_spike" ->
            IF detectSpike(context.snapshots, OrDefault(condition.threshold, 300)).isSpike
            THEN "true" ELSE "false"
      [] condition.type = "sentiment_shift" ->
            IF Len(context.tweets) < 10 THEN "false"
            ELSE LET recentTweets == Take(context.tweets, 20)
                     threshold == OrDefault(condition.threshold, 50)
                 IN IF Abs(SentimentSum(recentTweets)) >= threshold * Len(recentTweets)
                    THEN "true" ELSE "false"
      [] condition.type = "keyword_match" ->
            IF condition.keywords = None \/ Len(condition.keywords[1]) = 0 THEN "false"
            ELSE LET kws == condition.keywords[1]
                 IN IF \E k \in 1..Len(kws) : ~kws[k].isString
                    THEN "throw"
                    ELSE LET keywords == [k \in 1..Len(kws) |-> toLowerCase(kws[k].chars)]
                         IN IF KeywordHit(Take(context.tweets, 50), keywords)
                            THEN "true" ELSE "false"
      [] condition.type = "category_match" ->
            IF condition.categories = None \/ Len(condition.categories[1]) = 0 THEN "false"
            ELSE IF CategoryCount(Take(context.tweets, 20), condition.categories[1])
                       >= OrDefault(condition.threshold, 5)
                 THEN "true" ELSE "false"
      [] OTHER -> "false"

\* conditions.every(...): left to right, stops at the first false, and an
\* exception of a condition leaves the loop
RECURSIVE EveryCondition(_, _)
EveryCondition(conditions, context) ==
    IF conditions = <<>> THEN "true"
    ELSE LET r == evaluateCondition(conditions[1], context)
         IN IF r = "true" THEN EveryCondition(Tail(conditions), context) ELSE r

\* evaluateAlert without the enabled gate
evaluateAlertUngated(alert, context) == EveryCondition(alert.conditions, context)

evaluateAlert(alert, context) ==
    IF ~alert.enabled THEN "false"
    ELSE EveryCondition(alert.conditions, context)

\* ------------------------------------------------------------------------
\* Actions
\* ------------------------------------------------------------------------

\* outcomes of the POST of sendDiscordWebhook
FetchOutcomes == {"ok", "http_error", "network_error"}

\* sendDiscordWebhook: response.ok, or false when fetch throws
sendDiscordWebhook(outcome) == outcome = "ok"

\* an action that suspends on a network call
NeedsFetch(action) == action.type = "discord_webhook" /\ action.webhookUrl # ""

\* executeAction; outcome is the outcome of the POST when one is made
executeAction(action, outcome) ==
    CASE action.type = "discord_webhook" ->
            IF action.webhookUrl = "" THEN FALSE ELSE sendDiscordWebhook(outcome)
      [] action.type = "in_app_notification" -> TRUE
      [] action.type = "email" -> TRUE
      [] OTHER -> FALSE

\* all-or-nothing: results.every((r) => r)
EverySuccess(results) == \A k \in 1..Len(results) : results[k]

\* results.some((r) => r) over the results of all actions of the alert
SomeSuccess(results) == \E k \in 1..Len(results) : results[k]

\* ------------------------------------------------------------------------
\* Inputs of the engine model
\* ------------------------------------------------------------------------

Kw(chars) == [isString |-> TRUE, chars |-> chars]

\* a keyword entry that is not a string (alert definitions come from an
\* external configuration store and are not validated)
NotAString == [isString |-> FALSE, chars |-> <<>>]

Condition(type, threshold, keywords, categories) ==
    [type |-> type, threshold |-> threshold, keywords |-> keywords,
     categories |-> categories]

SpikeCondition == Condition("velocity_spike", Some(300), None, None)

KeywordCondition == Condition("keyword_match", None, Some(<<Kw(<<"B", "t", "c">>)>>), None)

MalformedCondition == Condition("keyword_match", None, Some(<<NotAString>>), None)

Action(type, webhookUrl) == [type |-> type, webhookUrl |-> webhookUrl]

Webhook == Action("discord_webhook", "https://discord/hook")

WebhookNoUrl == Action("discord_webhook", "")

InApp == Action("in_app_notification", "")

Email == Action("email", "")

MkAlert(id, enabled, conditions, actions) ==
    [id |-> id, enabled |-> enabled, conditions |-> conditions,
     actions |-> actions, triggerCount |-> 0, lastTriggeredAt |-> None]

\* the alerts of the configuration store, in the order of their creation
AlertPool ==
    << MkAlert("off",   FALSE, <<SpikeCondition>>,     <<Webhook, InApp>>),
       MkAlert("mixed", TRUE,  <<SpikeCondition>>,     <<Webhook, InApp>>),
       MkAlert("bad",   TRUE,  <<MalformedCondition>>, <<InApp>>),
       MkAlert("hooks", TRUE,  <<KeywordCondition>>,   <<WebhookNoUrl, Webhook>>),
       MkAlert("mute",  TRUE,  <<SpikeCondition, KeywordCondition>>, <<>>),
       MkAlert("empty", TRUE,  <<>>,                   <<Email>>) >>

\* the alert lists a caller hands to setAlerts: up to MaxAlerts alerts of
\* the store, in the order of the store
AlertLists ==
    { [i \in 1..Len(sel) |-> AlertPool[sel[i]]] :
        sel \in { f \in UNION { [1..n -> 1..Len(AlertPool)] : n \in 0..MaxAlerts } :
                    \A i, j \in 1..Len(f) : i < j => f[i] < f[j] } }

Tweet(id, text, createdAt) ==
    [id |-> id, text |-> text, createdAt |-> createdAt,
     sentiment |-> None, category |-> None]

Snapshot(count) == [count |-> count]

SnapshotsOf(counts) == [i \in 1..Len(counts) |-> Snapshot(counts[i])]

\* the partial contexts a caller hands to updateContext (Partial<AlertContext>)
ContextUpdates ==
    { [tweets |-> <<Tweet("t1", <<"e", "t", "h">>, 2), Tweet("t2", <<"B", "T", "C">>, 1)>>],
      [tweets |-> <<>>],
      [snapshots |-> SnapshotsOf(<<5, 5, 50>>), currentVelocity |-> 50, averageVelocity |-> 20],
      [snapshots |-> SnapshotsOf(<<10, 10, 10>>), currentVelocity |-> 10, averageVelocity |-> 10] }

\* ------------------------------------------------------------------------
\* Source adapters
\* ------------------------------------------------------------------------

\* RSS_FEEDS, in the order of the array
RSS_FEEDS ==
    << [id |-> "defillama", name |-> "DeFiLlama"],
       [id |-> "coindesk",  name |-> "CoinDesk"],
       [id |-> "theblock",  name |-> "The Block"],
       [id |-> "decrypt",   name |-> "Decrypt"] >>

\* text.slice(0, 280)
TweetTextLimit == 280

\* Math.min(parseInt(max), 50) and the default of the max parameter
MaxItemsCap == 50

DefaultMax == 20

\* the sources used when the parameter is absent
DefaultSources == <<"defillama", "coindesk", "theblock", "decrypt">>

\* Math.ceil(a / b) for a >= 0, b > 0
CeilDiv(a, b) == (a + b - 1) \div b

\* fetchRssFeed after parser.parseURL succeeded: the first limit items of
\* the feed, each mapped to a Tweet.  now is what new Date() reads when the
\* feed is mapped: item.isoDate ? new Date(item.isoDate) : new Date()
fetchRssFeed(source, limit, feedItems, now) ==
    LET items == Take(feedItems, limit)
    IN [i \in 1..Len(items) |->
          Tweet(<<"rss", source.id, items[i].guid>>,
                Take(items[i].title, TweetTextLimit),
                IF items[i].isoDate = None THEN now ELSE items[i].isoDate[1])]

\* insert x behind every element that is not older than x
RECURSIVE InsertNewestFirst(_, _)
InsertNewestFirst(sorted, x) ==
    IF sorted = <<>> THEN <<x>>
    ELSE IF sorted[1].createdAt >= x.createdAt
         THEN <<sorted[1]>> \o InsertNewestFirst(Tail(sorted), x)
         ELSE <<x>> \o sorted

\* tweets.sort((a, b) => b.createdAt - a.createdAt): a stable sort
RECURSIVE SortNewestFirst(_)
SortNewestFirst(tweets) ==
    IF tweets = <<>> THEN <<>>
    ELSE InsertNewestFirst(SortNewestFirst(SubSeq(tweets, 1, Len(tweets) - 1)),
                           tweets[Len(tweets)])

\* the forEach over the settled results, from position i on: a fulfilled
\* result pushes its tweets, a rejected one pushes one message
RECURSIVE PartitionResults(_, _, _)
PartitionResults(sources, results, i) ==
    IF i > Len(results) THEN [tweets |-> <<>>, errors |-> <<>>]
    ELSE LET rest == PartitionResults(sources, results, i + 1)
         IN IF results[i].status = "fulfilled"
            THEN [tweets |-> results[i].value \o rest.tweets, errors |-> rest.errors]
            ELSE [tweets |-> rest.tweets,
                  errors |-> <<<<sources[i].name, results[i].reason>>>> \o rest.errors]

\* RSS_FEEDS.filter((f) => sourceIds.includes(f.id))
SelectedFeeds(sourceIds) ==
    LET Selected(f) == \E k \in 1..Len(sourceIds) : sourceIds[k] = f.id
    IN SelectSeq(RSS_FEEDS, Selected)

\* fetchAllRssFeeds with a fail-fast join (Promise.all): one rejected feed
\* discards the tweets of its siblings
fetchAllRssFeedsFailFast(sources, results) ==
    LET parts == PartitionResults(sources, results, 1)
    IN IF Len(parts.errors) > 0
       THEN [tweets |-> <<>>, errors |-> parts.errors]
       ELSE [tweets |-> SortNewestFirst(parts.tweets), errors |-> parts.errors]

\* fetchAllRssFeeds once Promise.allSettled has every result
fetchAllRssFeeds(sources, results) ==
    LET parts == PartitionResults(sources, results, 1)
    IN [tweets |-> SortNewestFirst(parts.tweets), errors |-> parts.errors]

filterByKeywords(tweets, keywords) ==
    IF Len(keywords) = 0 THEN tweets
    ELSE LET lower == [k \in 1..Len(keywords) |-> toLowerCase(keywords[k])]
             Match(t) == \E k \in 1..Len(lower) : includes(toLowerCase(t.text), lower[k])
         IN SelectSeq(tweets, Match)

\* transformArticleToTweet; n is the value of _idCounter
transformArticleToTweet(article, n) ==
    LET text == IF Len(article.title) > 0
                THEN IF article.description # None /\ Len(article.description[1]) > 0
                     THEN article.title \o <<" ", "-", " ">> \o article.description[1]
                     ELSE article.title
                ELSE IF article.description # None THEN article.description[1]
                     ELSE <<"(no content)">>
    IN Tweet(<<"newsapi", article.publishedAt, n>>, Take(text, TweetTextLimit),
             article.publishedAt)

\* transformXApiTweet
transformXApiTweet(tweet) == Tweet(tweet.id, tweet.text, tweet.created_at)

\* ------------------------------------------------------------------------
\* Inputs of the resolver model
\* ------------------------------------------------------------------------

\* an item of a parsed feed; isoDate is optional
FeedItem(guid, title, isoDate) == [guid |-> guid, title |-> title, isoDate |-> isoDate]

\* the clock when the request arrives: later than every date of a feed item
RequestTime == 4

\* the clock when another feed completes: one tick per completed feed
Now(results) ==
    RequestTime + Cardinality({i \in 1..Len(results) : results[i].status # "pending"})

Fulfilled(value) == [status |-> "fulfilled", value |-> value, reason |-> ""]

Rejected(reason) == [status |-> "rejected", value |-> <<>>, reason |-> reason]

Pending == [status |-> "pending", value |-> <<>>, reason |-> ""]

\* what parser.parseURL of one feed can do: fail, or answer with items
FeedOutcomes(id) ==
    CASE id = "defillama" ->
            { Rejected("timeout"), Fulfilled(<<>>),
              Fulfilled(<<FeedItem("d1", <<"B", "T", "C">>, Some(2))>>),
              Fulfilled(<<FeedItem("d1", <<"B", "T", "C">>, Some(2)),
                          FeedItem("d2", <<"e", "t", "h">>, Some(3))>>),
              Fulfilled(<<FeedItem("d3", <<"e", "t", "h">>, None)>>) }
      [] id = "coindesk" ->
            { Rejected("Status code 404"),
              Fulfilled(<<FeedItem("c1", <<"B", "t", "c">>, Some(3)),
                          FeedItem("c2", <<"e", "t", "h">>, Some(1))>>),
              Fulfilled(<<FeedItem("c3", <<"B", "T", "C">>, None)>>) }
      [] id = "theblock" ->
            { Rejected("timeout"), Fulfilled(<<FeedItem("b1", <<"e", "t", "h">>, Some(2))>>) }
      [] OTHER ->
            { Rejected("socket hang up"), Fulfilled(<<>>),
              Fulfilled(<<FeedItem("y1", <<"b", "t", "c">>, Some(1))>>) }

AllFeedOutcomes == UNION { FeedOutcomes(RSS_FEEDS[k].id) : k \in 1..Len(RSS_FEEDS) }

Article(title, description, publishedAt) ==
    [title |-> title, description |-> description, publishedAt |-> publishedAt]

\* what fetchNewsArticles can do: fetch throws, the HTTP status is not ok,
\* or a body arrives with a status field and articles
NewsApiOutcomes ==
    { [kind |-> "network_error", status |-> "", articles |-> <<>>],
      [kind |-> "http_error",    status |-> "", articles |-> <<>>],
      [kind |-> "body", status |-> "error", articles |-> <<>>],
      [kind |-> "body", status |-> "ok",    articles |-> <<>>],
      [kind |-> "body", status |-> "ok",
       articles |-> <<Article(<<"e", "t", "h">>, None, 5)>>],
      [kind |-> "body", status |-> "ok",
       articles |-> <<Article(<<"B", "T", "C">>, Some(<<"u", "p">>), 5),
                      Article(<<"e", "t", "h">>, None, 4)>>] }

\* what client.searchRecentTweets can do: throw, or answer with a body whose
\* data field may be missing
XApiOutcomes ==
    { [kind |-> "error", data |-> None],
      [kind |-> "body",  data |-> None],
      [kind |-> "body",
       data |-> Some(<<[id |-> "x1", text |-> <<"e", "t", "h">>, created_at |-> 6]>>)] }

\* the texts generateTweetText picks from
MockTexts == << <<"e", "t", "h">>, <<"B", "T", "C">> >>

\* the random choices of one run of the mock generator
MockPicks == {0, 1}

\* Array.from({ length: max }, () => generateMockTweet())
generateMockTweets(max, pick) ==
    [i \in 1..max |-> Tweet(<<"mock", i>>, MockTexts[((i + pick) % 2) + 1], 7)]

\* the query parameters and the environment of one request
Requests ==
    [max : {None, Some(1), Some(60)},
     sources : {None, Some(<<"coindesk", "defillama">>), Some(<<"coingecko">>)},
     keywords : {None, Some(<<<<"B", "T", "C">>>>), Some(<< <<>>, <<"x", "r", "p">> >>)},
     NEWSAPI_KEY : BOOLEAN,
     X_BEARER_TOKEN : BOOLEAN]

\* ------------------------------------------------------------------------
\* State
\* ------------------------------------------------------------------------

VARIABLES
    alerts,         \* AlertEngine.alerts
    context,        \* AlertEngine.context
    checkInterval,  \* AlertEngine.checkInterval: 0 is null, else a timer id
    timers,         \* the repeating timers of the runtime that are active
    ticks,          \* the invocations of checkAlerts that are suspended
    lastTick,       \* history: the invocation of checkAlerts that ended last
                    \* since the alert list was set
    pc,             \* where the GET handler is: "idle", the tier it awaits, "done"
    request,        \* the parameters and environment of the request
    feedResults,    \* the results Promise.allSettled collects, one per selected feed
    parsed,         \* history: what parser.parseURL did, one per selected feed
    rss,            \* what fetchAllRssFeeds returned
    calls,          \* history: the tiers entered for the request, in order
    newsResult,     \* history: what fetchNewsArticles did for the request
    xResult,        \* history: what searchRecentTweets did for the request
    response,       \* the body of the response
    velocityStore,  \* useVelocityStore: snapshots and the three derived fields
    storeLog,       \* history: the snapshots handed to the store since it was
                    \* cleared or set, the list of a setSnapshots included
    storeAdds,      \* history: the addSnapshot calls since it was cleared or set
    velocityData,   \* the dashboard page's velocityData state
    pageLog,        \* history: the initial velocityData and every snapshot appended
    pageTweets,     \* the dashboard page's tweets state
    newTweets,      \* history: the batch the page fetched last
    historyLength,  \* the historyLength option of the mounted useVelocityStream
    stream,         \* useVelocityStream: snapshots and currentVelocity
    streamLog,      \* history: the snapshots the hook received since it mounted
    probe,          \* the arguments of the last call of a detector or evaluator
    verdict,        \* what that call returned
    form,           \* CreateAlertModal: name, conditions, webhookUrl; closed when
                    \* the modal is not mounted
    storedAlerts,   \* useAlertStore.alerts
    streamInterval, \* the module variable streamInterval of the mock stream:
                    \* 0 is null, else the stream whose interval it is
    spikeTimeout,   \* the module variable spikeTimeout: 0 is null
    mockTimers,     \* the intervals of mock streams that are active, by stream
    mockStreams,    \* the calls of startMockStream so far: whether onSpike was
                    \* given, and the setTimeout callbacks of its spikes that wait
    lastCall        \* history: the stream whose onTweet was invoked last; flip
                    \* changes with every invocation

engineVars == <<alerts, context, checkInterval, timers, ticks, lastTick>>

resolverVars == <<pc, request, feedResults, parsed, rss, calls, newsResult, xResult,
                  response>>

storeVars == <<velocityStore, storeLog, storeAdds>>

viewVars == <<velocityData, pageLog, pageTweets, newTweets, historyLength, stream, streamLog>>

probeVars == <<probe, verdict>>

alertStoreVars == <<form, storedAlerts>>

mockVars == <<streamInterval, spikeTimeout, mockTimers, mockStreams, lastCall>>

\* the state of the user interface outside the velocity views
uiVars == <<alertStoreVars, mockVars>>

vars == <<alerts, context, checkInterval, timers, ticks, lastTick,
          pc, request, feedResults, parsed, rss, calls, newsResult, xResult, response,
          velocityStore, storeLog, storeAdds,
          velocityData, pageLog, pageTweets, newTweets, historyLength, stream, streamLog,
          probe, verdict,
          form, storedAlerts,
          streamInterval, spikeTimeout, mockTimers, mockStreams, lastCall>>

\* the variables an operation of one component leaves alone
outsideEngine == <<resolverVars, storeVars, viewVars, probeVars, uiVars>>

outsideResolver == <<engineVars, storeVars, viewVars, probeVars, uiVars>>

outsideStore == <<engineVars, resolverVars, viewVars, probeVars, uiVars>>

outsideViews == <<engineVars, resolverVars, storeVars, probeVars, uiVars>>

outsideProbe == <<engineVars, resolverVars, storeVars, viewVars, uiVars>>

outsideAlertStore == <<engineVars, resolverVars, storeVars, viewVars, probeVars, mockVars>>

outsideMock == <<engineVars, resolverVars, storeVars, viewVars, probeVars, alertStoreVars>>

\* ------------------------------------------------------------------------
\* One invocation of checkAlerts.  A tick record holds the array the for-of
\* loop iterates (list), the position of the loop (i), the triggered array
\* (positions of list), and what the invocation did: the alerts it
\* evaluated, the actions it started and what triggerAlert returned.
\* phase: "await" while suspended in await triggerAlert(...), "done" after
\* return, "rejected" when an exception left the function ("none": no
\* invocation has ended yet).  atEntry is history: what evaluateAlert gives
\* for each alert of the list against the Context the engine holds when the
\* invocation is entered.
\* ------------------------------------------------------------------------

NewTick(list) ==
    [list |-> list, i |-> 1, phase |-> "run", triggered |-> <<>>,
     evaluated |-> <<>>, started |-> <<>>, dispatched |-> <<>>,
     results |-> <<>>, outcomes |-> <<>>, atEntry |-> <<>>]

NoTick == [NewTick(<<>>) EXCEPT !.phase = "none"]

BoolStr(b) == IF b THEN "true" ELSE "false"

\* triggerAlert up to its await: every action of the alert is started by
\* alert.actions.map(...); an action without network call has its result at
\* once, a webhook POST is pending
triggerAlertStart(t) ==
    LET acts == t.list[t.i].actions
    IN [t EXCEPT
          !.phase = "await",
          !.started = @ \o [k \in 1..Len(acts) |-> <<t.i, k>>],
          !.results = [k \in 1..Len(acts) |->
                          IF NeedsFetch(acts[k]) THEN "pending"
                          ELSE BoolStr(executeAction(acts[k], "none"))],
          !.outcomes = [k \in 1..Len(acts) |-> "none"]]

\* Promise.all has every result
Settled(t) == \A k \in 1..Len(t.results) : t.results[k] # "pending"

\* the value triggerAlert returns
triggerAlertReturn(t) ==
    SomeSuccess([k \in 1..Len(t.results) |-> t.results[k] = "true"])

RECURSIVE checkAlertsLoop(_, _)
\* the for-of loop of checkAlerts from position t.i on, up to the next
\* suspension on a pending POST, the return or an exception.  ctx is
\* this.context, read at each evaluation.
checkAlertsLoop(t, ctx) ==
    IF t.phase = "await" /\ ~Settled(t) THEN t
    ELSE IF t.phase = "await"
    THEN LET success == triggerAlertReturn(t)
         IN checkAlertsLoop(
               [t EXCEPT !.phase = "run",
                         !.dispatched = Append(@, [idx |-> t.i, outcomes |-> t.outcomes,
                                                   ret |-> success]),
                         !.triggered = IF success THEN Append(@, t.i) ELSE @,
                         !.results = <<>>, !.outcomes = <<>>,
                         !.i = @ + 1], ctx)
    ELSE IF t.i > Len(t.list) THEN [t EXCEPT !.phase = "done"]
    ELSE LET ev == evaluateAlert(t.list[t.i], ctx)
             t1 == [t EXCEPT !.evaluated = Append(@, t.i)]
         IN CASE ev = "throw" -> [t1 EXCEPT !.phase = "rejected"]
              [] ev = "true"  -> checkAlertsLoop(triggerAlertStart(t1), ctx)
              [] OTHER        -> checkAlertsLoop([t1 EXCEPT !.i = @ + 1], ctx)

\* ------------------------------------------------------------------------
\* Operations of the engine
\* ------------------------------------------------------------------------

EngineInit ==
    /\ alerts = <<>>
    /\ context = [tweets |-> <<>>, snapshots |-> <<>>,
                  currentVelocity |-> 0, averageVelocity |-> 0]
    /\ checkInterval = 0
    /\ timers = {}
    /\ ticks = <<>>
    /\ lastTick = NoTick

\* the adapter has not answered (yet)
NotCalled == [kind |-> "none"]

NoResponse == [tweets |-> <<>>, source |-> "none", errors |-> <<>>]

\* no request has been made
ResolverIdle ==
    /\ pc = "idle"
    /\ request = [max |-> None, sources |-> None, keywords |-> None,
                  NEWSAPI_KEY |-> FALSE, X_BEARER_TOKEN |-> FALSE]
    /\ feedResults = <<>>
    /\ parsed = <<>>
    /\ rss = [tweets |-> <<>>, errors |-> <<>>]
    /\ calls = <<>>
    /\ newsResult = NotCalled
    /\ xResult = NotCalled
    /\ response = NoResponse

setAlerts(list) ==
    /\ alerts' = list
    /\ lastTick' = NoTick
    /\ UNCHANGED <<context, checkInterval, timers, ticks, outsideEngine>>

\* { ...this.context, ...context }
updateContext(upd) ==
    /\ context' = [f \in DOMAIN context |->
                      IF f \in DOMAIN upd THEN upd[f] ELSE context[f]]
    /\ UNCHANGED <<alerts, checkInterval, timers, ticks, lastTick, outsideEngine>>

LeakedTimers == timers

\* timers after clearInterval(this.checkInterval) when it is not null
StoppedTimers == IF checkInterval # 0 THEN timers \ {checkInterval} ELSE timers

\* the handle setInterval returns: an id no active timer has
FreshTimer(active) == CHOOSE id \in 1..(Cardinality(active) + 1) : id \notin active

stopMonitoringHandleOnly ==
    /\ timers' = timers
    /\ checkInterval' = 0
    /\ UNCHANGED <<alerts, context, ticks, lastTick, outsideEngine>>

stopMonitoring ==
    /\ timers' = StoppedTimers
    /\ checkInterval' = 0
    /\ UNCHANGED <<alerts, context, ticks, lastTick, outsideEngine>>

\* this.stopMonitoring(), then setInterval: the new handle differs from every
\* active timer and from the handle just cleared
startMonitoring ==
    /\ checkInterval' = FreshTimer(timers \cup {checkInterval})
    /\ timers' = StoppedTimers \cup {checkInterval'}
    /\ UNCHANGED <<alerts, context, ticks, lastTick, outsideEngine>>

\* checkAlerts() is entered while fewer than limit invocations are
\* suspended: the loop runs to its first suspension
checkAlertsWithin(limit) ==
    /\ Len(ticks) < limit
    /\ LET entered == [NewTick(alerts) EXCEPT
                          !.atEntry = [j \in 1..Len(alerts) |->
                                          evaluateAlert(alerts[j], context)]]
           t == checkAlertsLoop(entered, context)
       IN IF t.phase = "await"
          THEN ticks' = Append(ticks, t) /\ UNCHANGED lastTick
          ELSE lastTick' = t /\ UNCHANGED ticks
    /\ UNCHANGED <<alerts, context, checkInterval, timers, outsideEngine>>

checkAlerts == checkAlertsWithin(MaxInFlight)

\* the callback of setInterval: () => this.checkAlerts()
timerFire ==
    /\ timers # {}
    /\ checkAlerts

\* the POST of action k of the alert tick n is dispatching completes; when it
\* was the last one, Promise.all resolves and the loop goes on
webhookSettle(n, k, outcome) ==
    /\ n \in 1..Len(ticks)
    /\ ticks[n].phase = "await"
    /\ k \in 1..Len(ticks[n].results)
    /\ ticks[n].results[k] = "pending"
    /\ LET t == ticks[n]
           t1 == [t EXCEPT
                    !.results[k] = BoolStr(executeAction(t.list[t.i].actions[k], outcome)),
                    !.outcomes[k] = outcome]
           t2 == checkAlertsLoop(t1, context)
       IN IF t2.phase = "await"
          THEN ticks' = [ticks EXCEPT ![n] = t2] /\ UNCHANGED lastTick
          ELSE /\ ticks' = SubSeq(ticks, 1, n - 1) \o SubSeq(ticks, n + 1, Len(ticks))
               /\ lastTick' = t2
    /\ UNCHANGED <<alerts, context, checkInterval, timers, outsideEngine>>

EngineNext ==
    \/ \E list \in AlertLists : setAlerts(list)
    \/ \E upd \in ContextUpdates : updateContext(upd)
    \/ startMonitoring
    \/ stopMonitoring
    \/ timerFire
    \/ \E n \in 1..MaxInFlight, k \in 1..2, outcome \in FetchOutcomes :
          webhookSettle(n, k, outcome)

\* ------------------------------------------------------------------------
\* The velocity store (useVelocityStore)
\* ------------------------------------------------------------------------

\* .slice(-60) of addSnapshot
HistoryCapacity == 60

Max(a, b) == IF a > b THEN a ELSE b

\* Array.prototype.slice(-n) for n >= 0; slice(-0) is slice(0), the whole array
Last(s, n) == IF n = 0 THEN s ELSE SubSeq(s, Max(1, Len(s) - n + 1), Len(s))

\* Math.max(...counts) of a non-empty array
MaxOf(counts) ==
    counts[CHOOSE i \in 1..Len(counts) : \A j \in 1..Len(counts) : counts[j] <= counts[i]]

\* the quotient num / den, kept exact
Fraction(num, den) == [num |-> num, den |-> den]

\* the mean of all counts but the newest one
MeanOfEarlier(counts) ==
    Fraction(SumSeq(SubSeq(counts, 1, Len(counts) - 1)), Max(1, Len(counts) - 1))

\* counts.reduce((a, b) => a + b, 0) / counts.length
Mean(counts) == Fraction(SumSeq(counts), Len(counts))

StoreInit ==
    /\ velocityStore = [snapshots |-> <<>>, currentVelocity |-> 0,
                        averageVelocity |-> Fraction(0, 1), peakVelocity |-> 0]
    /\ storeLog = <<>>
    /\ storeAdds = 0

addSnapshot(snapshot) ==
    /\ storeAdds < MaxAppends
    /\ LET newSnapshots == Last(Append(velocityStore.snapshots, snapshot), HistoryCapacity)
           counts == Counts(newSnapshots)
       IN velocityStore' = [snapshots |-> newSnapshots,
                            currentVelocity |-> snapshot.count,
                            averageVelocity |-> Mean(counts),
                            peakVelocity |-> MaxOf(counts)]
    /\ storeLog' = Append(storeLog, snapshot)
    /\ storeAdds' = storeAdds + 1
    /\ UNCHANGED outsideStore

setSnapshots(snapshots) ==
    /\ LET counts == Counts(snapshots)
       IN velocityStore' =
             [snapshots |-> snapshots,
              currentVelocity |-> IF Len(snapshots) > 0
                                  THEN snapshots[Len(snapshots)].count ELSE 0,
              averageVelocity |-> IF Len(counts) > 0 THEN Mean(counts) ELSE Fraction(0, 1),
              peakVelocity |-> IF Len(counts) > 0 THEN MaxOf(counts) ELSE 0]
    /\ storeLog' = snapshots
    /\ storeAdds' = 0
    /\ UNCHANGED outsideStore

clearSnapshots ==
    /\ velocityStore' = [snapshots |-> <<>>, currentVelocity |-> 0,
                         averageVelocity |-> Fraction(0, 1), peakVelocity |-> 0]
    /\ storeLog' = <<>>
    /\ storeAdds' = 0
    /\ UNCHANGED outsideStore

\* the counts a snapshot handed to the store carries
BatchSizes == {0, 5, 50}

\* n snapshots with the counts 1, 2, ..., n
Numbered(n) == [i \in 1..n |-> Snapshot(i)]

\* the lists handed to setSnapshots: short ones and ones around the capacity
SnapshotLists ==
    { <<>>, SnapshotsOf(<<7>>), SnapshotsOf(<<5, 5, 50>>),
      Numbered(HistoryCapacity - 1), Numbered(HistoryCapacity),
      Numbered(HistoryCapacity + 1) }

StoreNext ==
    \/ \E count \in BatchSizes : addSnapshot(Snapshot(count))
    \/ \E snapshots \in SnapshotLists : setSnapshots(snapshots)
    \/ clearSnapshots

\* ------------------------------------------------------------------------
\* The histories of the views: the dashboard page (fetchTweets) and the
\* useVelocityStream hook
\* ------------------------------------------------------------------------

\* generateDemoVelocityData(count): the base velocity, and a spike at the
\* positions 15..20 (counted from 0)
generateDemoVelocityData(count) ==
    [i \in 1..count |-> Snapshot(IF i - 1 >= 15 /\ i - 1 <= 20 THEN 80 ELSE 20)]

\* historyLength = 60 of useVelocityStream
DefaultHistoryLength == 60

\* the values of the historyLength option
HistoryLengths == {0, 2, DefaultHistoryLength}

ViewsInit ==
    /\ velocityData = generateDemoVelocityData(30)
    /\ pageLog = generateDemoVelocityData(30)
    /\ pageTweets = <<>>
    /\ newTweets = <<>>
    /\ historyLength = DefaultHistoryLength
    /\ stream = [snapshots |-> <<>>, currentVelocity |-> 0]
    /\ streamLog = <<>>

\* .slice(0, 100) of the merge of fetchTweets
TweetsCap == 100

\* the merge of setTweets: the items of the batch whose id is not in prev,
\* then prev, cut to 100
Merge(prev, batch) ==
    LET IsFresh(t) == \A i \in 1..Len(prev) : prev[i].id # t.id
    IN Take(SelectSeq(batch, IsFresh) \o prev, TweetsCap)

\* fetchTweets with data.tweets = batch: the merge into tweets, and
\* setVelocityData((prev) => [...prev.slice(-59), newSnapshot]) with the
\* size of the batch as count
fetchTweets(batch) ==
    /\ Len(pageLog) < HistoryCapacity + MaxAppends
    /\ pageTweets' = Merge(pageTweets, batch)
    /\ newTweets' = batch
    /\ velocityData' = Append(Last(velocityData, 59), Snapshot(Len(batch)))
    /\ pageLog' = Append(pageLog, Snapshot(Len(batch)))
    /\ UNCHANGED <<historyLength, stream, streamLog, outsideViews>>

\* a component mounts useVelocityStream({ historyLength: n })
useVelocityStream(n) ==
    /\ historyLength' = n
    /\ stream' = [snapshots |-> <<>>, currentVelocity |-> 0]
    /\ streamLog' = <<>>
    /\ UNCHANGED <<velocityData, pageLog, pageTweets, newTweets, outsideViews>>

\* the handler of the velocity update event
handleUpdate(snapshot) ==
    /\ Len(streamLog) < historyLength + MaxAppends
    /\ stream' = [snapshots |-> Last(Append(stream.snapshots, snapshot), historyLength),
                  currentVelocity |-> snapshot.count]
    /\ streamLog' = Append(streamLog, snapshot)
    /\ UNCHANGED <<velocityData, pageLog, pageTweets, newTweets, historyLength, outsideViews>>

\* the snapshot a view receives next carries the number of snapshots its
\* history has received so far
\* the ingestion cycles of the page so far
Cycles == Len(pageLog) - 30

\* an item of a batch: identity is the id
Item(id) == [id |-> id]

\* a batch of size items whose ids no earlier batch carries
FreshBatch(size) == [i \in 1..size |-> Item(100 * Cycles + i)]

\* /api/tweets?max=20
PageMax == 20

ViewsNext ==
    \/ fetchTweets(FreshBatch(Cycles % (PageMax + 1)))
    \/ \E n \in HistoryLengths : useVelocityStream(n)
    \/ handleUpdate(Snapshot(Len(streamLog)))

\* no detector or evaluator has been called
ProbeInit ==
    /\ probe = [op |-> "none"]
    /\ verdict = [op |-> "none"]

\* ------------------------------------------------------------------------
\* The spike detector applied to the history of the Context
\* ------------------------------------------------------------------------

\* the counts of the snapshots recorded: the values around the bounds of
\* the absolute branch (10, 20, 50) and the counts of the examples
CountPool == {0, 5, 10, 11, 20, 21, 40, 50, 51}

\* the thresholdPercent argument: absent, or a percentage
Thresholds == {None, Some(0), Some(200), Some(300), Some(900)}

\* the mean of the counts before the newest one is a multiple of 1/4: the
\* double the code computes for it, and for a percentage that lies on a
\* bound, is the exact value
ExactBaseline(snapshots) ==
    IF Len(snapshots) < 2 THEN TRUE
    ELSE (4 * SumSeq(Counts(SubSeq(snapshots, 1, Len(snapshots) - 1))))
             % (Len(snapshots) - 1) = 0

\* updateContext({ snapshots: [...snapshots, snapshot] }): one more snapshot
observe(count) ==
    /\ Len(context.snapshots) < MaxHistory
    /\ context' = [context EXCEPT !.snapshots = Append(@, Snapshot(count))]
    /\ probe' = [op |-> "none"]
    /\ verdict' = [op |-> "none"]
    /\ UNCHANGED <<alerts, checkInterval, timers, ticks, lastTick,
                   resolverVars, storeVars, viewVars, uiVars>>

\* detectSpike(context.snapshots, thresholdPercent), thresholdPercent = 300
\* when the argument is absent
detect(thresholdPercent) ==
    /\ ExactBaseline(context.snapshots)
    /\ probe' = [op |-> "detectSpike", thresholdPercent |-> thresholdPercent]
    /\ verdict' = detectSpike(context.snapshots,
                              IF thresholdPercent = None THEN 300 ELSE thresholdPercent[1])
    /\ UNCHANGED outsideProbe

DetectorNext ==
    \/ \E count \in CountPool : observe(count)
    \/ \E thresholdPercent \in Thresholds : detect(thresholdPercent)

\* ------------------------------------------------------------------------
\* evaluateCondition applied to the Context
\* ------------------------------------------------------------------------

\* tweets of the Context: without sentiment, with a sentiment score (in
\* 1/100), and one whose text is in upper case
Plain(id) == Tweet(id, <<"e", "t", "h">>, 0)

Scored(id, score) == [Plain(id) EXCEPT !.sentiment = Some(score)]

Upper(id) == Tweet(id, <<"B", "T", "C">>, 0)

\* the tweet lists of the Context, most recent first: around the window of
\* 50 tweets of keyword_match, and around the 10 tweets and the window of
\* 20 tweets of sentiment_shift
EvaluatorTweets ==
    { <<>>,
      <<Plain(1), Upper(2)>>,
      [i \in 1..50 |-> IF i = 50 THEN Upper(i) ELSE Plain(i)],
      [i \in 1..51 |-> IF i = 51 THEN Upper(i) ELSE Plain(i)],
      [i \in 1..9  |-> Scored(i, 100)],
      [i \in 1..10 |-> IF i = 10 THEN Plain(i) ELSE Scored(i, 100)],
      [i \in 1..10 |-> Scored(i, 50)],
      [i \in 1..10 |-> Scored(i, 0 - 100)],
      [i \in 1..10 |-> Plain(i)],
      [i \in 1..21 |-> IF i = 21 THEN Scored(i, 100) ELSE Scored(i, 45)] }

\* the snapshot histories of the Context
EvaluatorHistories == { <<>>, <<10, 10, 10>>, <<5, 5, 50>>, <<10, 10, 10, 40>>, <<0, 0, 11>> }

\* what the caller hands to updateContext before an evaluation
EvaluatorUpdates ==
    { [tweets |-> tweets] : tweets \in EvaluatorTweets }
    \cup { [snapshots |-> SnapshotsOf(counts)] : counts \in EvaluatorHistories }

\* the conditions evaluated: every type, with the threshold and the
\* keyword list absent, empty or zero, and configured
EvaluatedConditions ==
    { Condition("velocity_spike", t, None, None) :
          t \in {None, Some(0), Some(300), Some(900)} }
    \cup { Condition("sentiment_shift", t, None, None) :
          t \in {None, Some(0), Some(50), Some(90)} }
    \cup { Condition("keyword_match", None, k, None) :
          k \in { None, Some(<<>>), Some(<<Kw(<<"B", "t", "c">>)>>),
                  Some(<<Kw(<<"x", "r", "p">>), Kw(<<"E", "T", "H">>)>>),
                  Some(<<Kw(<<>>)>>), Some(<<NotAString>>) } }
    \cup { Condition("category_match", None, None, Some(<<"breaking_news">>)) }

\* evaluateCondition(condition, this.context)
evaluate(condition) ==
    /\ probe' = [op |-> "evaluateCondition", condition |-> condition, context |-> context]
    /\ verdict' = [result |-> evaluateCondition(condition, context)]
    /\ UNCHANGED outsideProbe

EvaluatorNext ==
    \/ \E upd \in EvaluatorUpdates : updateContext(upd)
    \/ \E condition \in EvaluatedConditions : evaluate(condition)

\* ------------------------------------------------------------------------
\* The alert store (useAlertStore) and the creation form (CreateAlertModal)
\* ------------------------------------------------------------------------

\* the alerts the store holds at most
MaxStored == 2

\* String.prototype.trim on a text of the form: the spaces at both ends go
trim(text) ==
    LET inked == {i \in 1..Len(text) : text[i] # " "}
    IN IF inked = {} THEN <<>>
       ELSE SubSeq(text, CHOOSE i \in inked : \A j \in inked : i <= j,
                         CHOOSE i \in inked : \A j \in inked : j <= i)

\* what the user types into the name field
FormNames == {<<>>, <<" ">>, <<"a", " ">>}

\* what the user types into the webhook field: nothing, a blank, a webhook
\* URL with a blank after it, a text that is no URL
FormUrls == {<<>>, <<" ">>, <<"h", "t", "t", "p", "s", ":", "/", "/", "d", " ">>, <<"n", "o">>}

\* the condition types the user picks, of the four the modal offers
FormTypes == {"velocity_spike", "keyword_match"}

\* Date.now() at the creation of an alert
Clock == {1, 2}

FormClosed == [open |-> FALSE, name |-> <<>>, conditions |-> <<>>, webhookUrl |-> <<>>]

\* useState('') / useState([]) of a modal that mounts
FormOpened == [FormClosed EXCEPT !.open = TRUE]

AlertStoreInit ==
    /\ form = FormClosed
    /\ storedAlerts = <<>>

\* the New Alert button: setIsModalOpen(true)
openModal ==
    /\ ~form.open
    /\ form' = FormOpened
    /\ UNCHANGED <<storedAlerts, outsideAlertStore>>

\* onClose: setIsModalOpen(false)
closeModal ==
    /\ form.open
    /\ form' = FormClosed
    /\ UNCHANGED <<storedAlerts, outsideAlertStore>>

setName(text) ==
    /\ form.open
    /\ form' = [form EXCEPT !.name = text]
    /\ UNCHANGED <<storedAlerts, outsideAlertStore>>

setWebhookUrl(text) ==
    /\ form.open
    /\ form' = [form EXCEPT !.webhookUrl = text]
    /\ UNCHANGED <<storedAlerts, outsideAlertStore>>

\* the condition handleAddCondition builds for a type (thresholds in 1/100
\* for sentiment_shift)
NewCondition(type) ==
    CASE type = "velocity_spike"  -> Condition(type, Some(300), None, None)
      [] type = "sentiment_shift" -> Condition(type, Some(50), None, None)
      [] type = "keyword_match"   -> Condition(type, None, Some(<<>>), None)
      [] type = "category_match"  -> Condition(type, None, None, Some(<<"breaking_news">>))

handleAddCondition(type) ==
    /\ form.open
    /\ form' = IF \E i \in 1..Len(form.conditions) : form.conditions[i].type = type
               THEN form
               ELSE [form EXCEPT !.conditions = Append(@, NewCondition(type))]
    /\ UNCHANGED <<storedAlerts, outsideAlertStore>>

handleRemoveCondition(type) ==
    /\ form.open
    /\ form' = [form EXCEPT !.conditions = SelectSeq(@, LAMBDA c : c.type # type)]
    /\ UNCHANGED <<storedAlerts, outsideAlertStore>>

\* an alert of the store: the fields of Alert the form sets
StoredAlert(id, name, enabled, conditions, actions) ==
    [id |-> id, name |-> name, enabled |-> enabled, conditions |-> conditions,
     actions |-> actions, triggerCount |-> 0]

\* an action of a stored alert: webhookUrl is None when the action has none
StoredAction(type, webhookUrl) == [type |-> type, webhookUrl |-> webhookUrl]

\* the alert handleCreate builds from the form
CreatedAlert(now) ==
    StoredAlert(now, trim(form.name), TRUE, form.conditions,
                <<StoredAction("in_app_notification", None)>>
                \o (IF trim(form.webhookUrl) # <<>>
                    THEN <<StoredAction("discord_webhook", Some(trim(form.webhookUrl)))>>
                    ELSE <<>>))

\* addAlert of the store
addAlert(alert) ==
    /\ Len(storedAlerts) < MaxStored
    /\ storedAlerts' = Append(storedAlerts, alert)

\* the Create button: nothing happens without a name or without conditions;
\* else onCreate(alert), which is addAlert(alert) and setIsModalOpen(false)
handleCreate(now) ==
    /\ form.open
    /\ IF trim(form.name) = <<>> \/ Len(form.conditions) = 0
       THEN UNCHANGED <<form, storedAlerts>>
       ELSE addAlert(CreatedAlert(now)) /\ form' = FormClosed
    /\ UNCHANGED outsideAlertStore

\* { ...a, ...updates }
Merged(a, updates) ==
    [f \in DOMAIN a |-> IF f \in DOMAIN updates THEN updates[f] ELSE a[f]]

\* the updates a caller hands to updateAlert
AlertUpdates ==
    { [conditions |-> <<>>],
      [actions |-> <<StoredAction("discord_webhook", Some(<<"n", "o">>))>>] }

updateAlert(id, updates) ==
    /\ storedAlerts' = [i \in 1..Len(storedAlerts) |->
                           IF storedAlerts[i].id = id
                           THEN Merged(storedAlerts[i], updates)
                           ELSE storedAlerts[i]]
    /\ UNCHANGED <<form, outsideAlertStore>>

removeAlert(id) ==
    /\ storedAlerts' = SelectSeq(storedAlerts, LAMBDA a : a.id # id)
    /\ UNCHANGED <<form, outsideAlertStore>>

toggleAlert(id) ==
    /\ storedAlerts' = [i \in 1..Len(storedAlerts) |->
                           IF storedAlerts[i].id = id
                           THEN [storedAlerts[i] EXCEPT !.enabled = ~@]
                           ELSE storedAlerts[i]]
    /\ UNCHANGED <<form, outsideAlertStore>>

AlertStoreNext ==
    \/ openModal
    \/ closeModal
    \/ \E text \in FormNames : setName(text)
    \/ \E text \in FormUrls : setWebhookUrl(text)
    \/ \E type \in FormTypes : handleAddCondition(type)
    \/ \E type \in FormTypes : handleRemoveCondition(type)
    \/ \E now \in Clock : handleCreate(now)
    \/ \E id \in Clock, updates \in AlertUpdates : updateAlert(id, updates)
    \/ \E id \in Clock : removeAlert(id)
    \/ \E id \in Clock : toggleAlert(id)

\* ------------------------------------------------------------------------
\* The mock stream (startMockStream, stopMockStream, isStreamRunning)
\* ------------------------------------------------------------------------

\* the calls of startMockStream in the runs explored
MaxStreams == 2

\* the setTimeout callbacks of one stream that wait at once in the runs
\* explored
MaxPending == 24

\* 15 + Math.floor(Math.random() * 10): the least and the greatest size
SpikeSizes == {15, 24}

MockInit ==
    /\ streamInterval = 0
    /\ spikeTimeout = 0
    /\ mockTimers = {}
    /\ mockStreams = <<>>
    /\ lastCall = [stream |-> 0, flip |-> FALSE]

\* onTweet of stream id is invoked
onTweet(id) == [stream |-> id, flip |-> ~lastCall.flip]

\* the intervals after clearInterval(streamInterval) when it is not null
ClearedIntervals == IF streamInterval # 0 THEN mockTimers \ {streamInterval} ELSE mockTimers

\* stopMockStream, also the cleanup function startMockStream returns:
\* spikeTimeout is never assigned, so clearTimeout is never reached and the
\* callbacks that wait stay
stopMockStream ==
    /\ mockTimers' = ClearedIntervals
    /\ streamInterval' = 0
    /\ spikeTimeout' = 0
    /\ UNCHANGED <<mockStreams, lastCall, outsideMock>>

startMockStream(onSpike) ==
    /\ Len(mockStreams) < MaxStreams
    /\ mockStreams' = Append(mockStreams, [onSpike |-> onSpike, pending |-> 0])
    /\ streamInterval' = Len(mockStreams')
    /\ mockTimers' = ClearedIntervals \cup {streamInterval'}
    /\ spikeTimeout' = 0
    /\ UNCHANGED <<lastCall, outsideMock>>

\* the interval of stream id fires, Math.random() >= spikeChance or no
\* onSpike: onTweet(generateMockTweet())
intervalTweet(id) ==
    /\ id \in mockTimers
    /\ lastCall' = onTweet(id)
    /\ UNCHANGED <<streamInterval, spikeTimeout, mockTimers, mockStreams, outsideMock>>

\* the interval of stream id fires, Math.random() < spikeChance:
\* onSpike(spikeTweets, spikeTopic), and one setTimeout per item
intervalSpike(id, size) ==
    /\ id \in mockTimers
    /\ mockStreams[id].onSpike
    /\ mockStreams[id].pending + size <= MaxPending
    /\ mockStreams' = [mockStreams EXCEPT ![id].pending = @ + size]
    /\ UNCHANGED <<streamInterval, spikeTimeout, mockTimers, lastCall, outsideMock>>

\* a setTimeout callback of a spike of stream id runs: onTweet(tweet)
spikeItem(id) ==
    /\ id \in 1..Len(mockStreams)
    /\ mockStreams[id].pending > 0
    /\ mockStreams' = [mockStreams EXCEPT ![id].pending = @ - 1]
    /\ lastCall' = onTweet(id)
    /\ UNCHANGED <<streamInterval, spikeTimeout, mockTimers, outsideMock>>

isStreamRunning == streamInterval # 0

MockNext ==
    \/ \E onSpike \in BOOLEAN : startMockStream(onSpike)
    \/ stopMockStream
    \/ \E id \in 1..MaxStreams : intervalTweet(id)
    \/ \E id \in 1..MaxStreams, size \in SpikeSizes : intervalSpike(id, size)
    \/ \E id \in 1..MaxStreams : spikeItem(id)

\* state after construction: a fresh engine, no request in progress, an
\* empty store, the page with its demo history, no alert configured, no
\* mock stream
Init ==
    /\ EngineInit /\ ResolverIdle /\ StoreInit /\ ViewsInit /\ ProbeInit
    /\ AlertStoreInit /\ MockInit

SpecEngine == Init /\ [][EngineNext]_vars

\* the invocations of checkAlerts suspended at once in the runs of
\* SpecOverlap
MaxOverlap == 2

\* the alert lists whose first alert suspends an invocation on a webhook
OverlapLists == { <<AlertPool[2]>>, <<AlertPool[2], AlertPool[4]>> }

\* the contexts in which those alerts trigger
OverlapUpdates ==
    { [tweets |-> <<Tweet("t1", <<"e", "t", "h">>, 2), Tweet("t2", <<"B", "T", "C">>, 1)>>],
      [snapshots |-> SnapshotsOf(<<5, 5, 50>>), currentVelocity |-> 50, averageVelocity |-> 20] }

\* the callback of setInterval fires whether or not an earlier invocation
\* has returned
timerFireAgain ==
    /\ timers # {}
    /\ checkAlertsWithin(MaxOverlap)

OverlapNext ==
    \/ \E list \in OverlapLists : setAlerts(list)
    \/ \E upd \in OverlapUpdates : updateContext(upd)
    \/ startMonitoring
    \/ stopMonitoring
    \/ timerFireAgain
    \/ \E n \in 1..MaxOverlap, k \in 1..2, outcome \in FetchOutcomes :
          webhookSettle(n, k, outcome)

\* the engine with its timer firing during the await of an invocation
SpecOverlap == Init /\ [][OverlapNext]_vars

SpecVelocityStore == Init /\ [][StoreNext]_vars

SpecVelocityViews == Init /\ [][ViewsNext]_vars

\* the ingestion cycles in the runs of SpecDashboard
MaxCycles == 6

\* a batch of new items whose last item repeats the id of its first
TwinBatch == [FreshBatch(PageMax) EXCEPT ![PageMax] = FreshBatch(PageMax)[1]]

\* what /api/tweets answers: new items, the batch of the cycle before once
\* more, new items with an id repeated, or a few new items
DashboardBatches == {FreshBatch(PageMax), newTweets, TwinBatch, FreshBatch(2)}

DashboardNext ==
    \E batch \in DashboardBatches : Cycles < MaxCycles /\ fetchTweets(batch)

\* the ingestion cycles of the dashboard page
SpecDashboard == Init /\ [][DashboardNext]_vars

SpecDetector == Init /\ [][DetectorNext]_vars

SpecEvaluator == Init /\ [][EvaluatorNext]_vars

SpecAlertStore == Init /\ [][AlertStoreNext]_vars

SpecMockStream == Init /\ [][MockNext]_vars

\* ------------------------------------------------------------------------
\* The GET handler of /api/tweets
\* ------------------------------------------------------------------------

\* Math.min(parseInt(searchParams.get('max') || '20'), 50)
ParamMax(req) == Min(IF req.max = None THEN DefaultMax ELSE req.max[1], MaxItemsCap)

\* (searchParams.get('sources') || '...').split(',')
ParamSources(req) == IF req.sources = None THEN DefaultSources ELSE req.sources[1]

\* kwParam ? kwParam.split(',').filter(Boolean) : []
ParamKeywords(req) ==
    LET NonEmpty(k) == Len(k) > 0
    IN IF req.keywords = None THEN <<>> ELSE SelectSeq(req.keywords[1], NonEmpty)

\* the limit handed to fetchAllRssFeeds
FeedLimit(req) == CeilDiv(ParamMax(req), Len(ParamSources(req))) + 5

Respond(tweets, source, errors, called) ==
    [pc |-> "done", calls |-> called,
     response |-> [tweets |-> tweets, source |-> source, errors |-> errors]]

Await(tier, called) ==
    [pc |-> tier, calls |-> Append(called, tier), response |-> NoResponse]

\* 4. mock fallback
mockTier(req, called, pick) ==
    Respond(generateMockTweets(ParamMax(req), pick), "mock", <<>>, Append(called, "mock"))

\* 3. X API: entered when a bearer token is configured
xApiTier(req, called, pick) ==
    IF req.X_BEARER_TOKEN THEN Await("x_api", called) ELSE mockTier(req, called, pick)

\* the two providers in the opposite order
newsApiTierAfterX(req, called, pick) ==
    IF req.X_BEARER_TOKEN THEN Await("x_api", called)
    ELSE IF req.NEWSAPI_KEY THEN Await("newsapi", called)
    ELSE mockTier(req, called, pick)

\* 2. NewsAPI: entered when a key is configured
newsApiTier(req, called, pick) ==
    IF req.NEWSAPI_KEY THEN Await("newsapi", called) ELSE xApiTier(req, called, pick)

\* 1. RSS feeds, after fetchAllRssFeeds returned fetched
rssTier(req, fetched, called, pick) ==
    LET keywords == ParamKeywords(req)
        filtered == IF Len(keywords) > 0 THEN filterByKeywords(fetched.tweets, keywords)
                    ELSE fetched.tweets
        sliced == Take(filtered, ParamMax(req))
    IN IF Len(sliced) > 0
       THEN Respond(sliced, "rss", fetched.errors, called)
       ELSE newsApiTier(req, called, pick)

Goto(next) ==
    /\ pc' = next.pc
    /\ calls' = next.calls
    /\ response' = next.response

\* a request arrives: the handler runs up to its first suspension
GET(req, pick) ==
    /\ pc \in {"idle", "done"}
    /\ request' = req
    /\ LET sources == SelectedFeeds(ParamSources(req))
       IN IF Len(sources) = 0
          THEN /\ feedResults' = <<>>
               /\ parsed' = <<>>
               /\ rss' = fetchAllRssFeeds(sources, <<>>)
               /\ Goto(rssTier(req, rss', <<"rss">>, pick))
          ELSE /\ feedResults' = [i \in 1..Len(sources) |-> Pending]
               /\ parsed' = [i \in 1..Len(sources) |-> Pending]
               /\ rss' = [tweets |-> <<>>, errors |-> <<>>]
               /\ Goto(Await("rss", <<>>))
    /\ newsResult' = NotCalled
    /\ xResult' = NotCalled
    /\ UNCHANGED outsideResolver

\* the fetch of the i-th selected feed settles; with the last one
\* Promise.allSettled resolves and the handler goes on
feedSettle(i, outcome, pick) ==
    /\ pc = "rss"
    /\ i \in 1..Len(feedResults)
    /\ feedResults[i].status = "pending"
    /\ LET sources == SelectedFeeds(ParamSources(request))
       IN /\ outcome \in FeedOutcomes(sources[i].id)
          /\ feedResults' = [feedResults EXCEPT ![i] =
                 IF outcome.status = "fulfilled"
                 THEN Fulfilled(fetchRssFeed(sources[i], FeedLimit(request), outcome.value,
                                             Now(feedResults)))
                 ELSE outcome]
          /\ parsed' = [parsed EXCEPT ![i] = outcome]
          /\ IF \A j \in 1..Len(feedResults) : feedResults'[j].status # "pending"
             THEN /\ rss' = fetchAllRssFeeds(sources, feedResults')
                  /\ Goto(rssTier(request, rss', calls, pick))
             ELSE UNCHANGED <<rss, pc, calls, response>>
    /\ UNCHANGED <<request, newsResult, xResult, outsideResolver>>

\* fetchNewsArticles settles
newsApiSettle(outcome, pick) ==
    /\ pc = "newsapi"
    /\ IF outcome.kind = "body" /\ outcome.status = "ok"
       THEN Goto(Respond([i \in 1..Len(outcome.articles) |->
                            transformArticleToTweet(outcome.articles[i], i - 1)],
                         "newsapi", <<>>, calls))
       ELSE Goto(xApiTier(request, calls, pick))
    /\ newsResult' = outcome
    /\ UNCHANGED <<request, feedResults, parsed, rss, xResult, outsideResolver>>

\* client.searchRecentTweets settles
xApiSettle(outcome, pick) ==
    /\ pc = "x_api"
    /\ IF outcome.kind = "body"
       THEN LET data == IF outcome.data = None THEN <<>> ELSE outcome.data[1]
            IN Goto(Respond([i \in 1..Len(data) |-> transformXApiTweet(data[i])],
                            "x_api", <<>>, calls))
       ELSE Goto(mockTier(request, calls, pick))
    /\ xResult' = outcome
    /\ UNCHANGED <<request, feedResults, parsed, rss, newsResult, outsideResolver>>

ResolverNext ==
    \/ \E req \in Requests, pick \in MockPicks : GET(req, pick)
    \/ \E i \in 1..Len(RSS_FEEDS), outcome \in AllFeedOutcomes, pick \in MockPicks :
          feedSettle(i, outcome, pick)
    \/ \E outcome \in NewsApiOutcomes, pick \in MockPicks : newsApiSettle(outcome, pick)
    \/ \E outcome \in XApiOutcomes, pick \in MockPicks : xApiSettle(outcome, pick)

SpecResolver == Init /\ [][ResolverNext]_vars

\* a pending feed fetch settles: by its answer, or by the rejection the
\* parser raises when its timeout of 8000 ms runs out
feedFetchEnds ==
    \E i \in 1..Len(RSS_FEEDS), outcome \in AllFeedOutcomes, pick \in MockPicks :
        feedSettle(i, outcome, pick)

\* the resolver with what its timers guarantee: only the feed parser has a
\* timeout; the fetch of fetchNewsArticles and the fetch of XApiClient
\* carry none, so nothing forces them to settle
SpecResolverTimed == Init /\ [][ResolverNext]_vars /\ WF_vars(feedFetchEnds)

\* ------------------------------------------------------------------------
\* Properties of the alert engine (SpecEngine)
\* ------------------------------------------------------------------------

\* every invocation of checkAlerts the state knows of
TickRecords == {ticks[n] : n \in 1..Len(ticks)} \cup {lastTick}

\* the actions of the alert at position i were started in invocation t
Dispatched(t, i) == \E j \in 1..Len(t.started) : t.started[j][1] = i

\* the alert at position i is in the array invocation t returns
Returned(t, i) == \E j \in 1..Len(t.triggered) : t.triggered[j] = i

\* C1: an alert whose conditions list is empty never triggers: evaluateAlert
\* is false for it in every Context, and no checkAlerts run dispatches its
\* actions or returns it as triggered.
C1_EmptyConditionsNeverTrigger ==
    /\ \A i \in 1..Len(alerts) :
          alerts[i].conditions = <<>> => evaluateAlert(alerts[i], context) = "false"
    /\ \A t \in TickRecords : \A i \in 1..Len(t.list) :
          t.list[i].conditions = <<>> => ~Dispatched(t, i) /\ ~Returned(t, i)

\* number of times triggerAlert returned true for position i in invocation t
Successes(t, i) ==
    Cardinality({j \in 1..Len(t.dispatched) :
                    t.dispatched[j].idx = i /\ t.dispatched[j].ret})

\* the engine still holds the array the invocation iterated
SameAlerts(t) ==
    /\ Len(alerts) = Len(t.list)
    /\ \A i \in 1..Len(alerts) : alerts[i].id = t.list[i].id

\* C2: when an invocation of checkAlerts has ended, every alert of the
\* engine has a triggerCount raised by one for each dispatch of it that
\* reported success (t.list holds the alerts as they were when the
\* invocation began), its lastTriggeredAt is set when there was one, and
\* both are unchanged when there was none.
C2_TriggerCountFollowsSuccess ==
    (lastTick.phase = "done" /\ ticks = <<>> /\ SameAlerts(lastTick)) =>
        \A i \in 1..Len(alerts) :
            /\ alerts[i].triggerCount =
                  lastTick.list[i].triggerCount + Successes(lastTick, i)
            /\ Successes(lastTick, i) > 0 => alerts[i].lastTriggeredAt # None
            /\ Successes(lastTick, i) = 0 =>
                  alerts[i].lastTriggeredAt = lastTick.list[i].lastTriggeredAt

\* an action reports success: the in-app and the email action always, the
\* webhook action when it has a URL and the POST is answered with 2xx
ReportsSuccess(action, outcome) ==
    \/ action.type \in {"in_app_notification", "email"}
    \/ action.type = "discord_webhook" /\ action.webhookUrl # "" /\ outcome = "ok"

\* C4: triggerAlert starts every configured action of the alert and returns
\* true iff at least one action reports success; the result of an action
\* does not depend on its siblings (an action without network call has
\* reported while a sibling POST is still pending), and an alert without
\* actions yields false.
C4_AnyActionSuccess ==
    \A t \in TickRecords :
        /\ \A j \in 1..Len(t.dispatched) :
              LET d == t.dispatched[j]
                  acts == t.list[d.idx].actions
              IN /\ Len(d.outcomes) = Len(acts)
                 /\ \A k \in 1..Len(acts) :
                       Cardinality({m \in 1..Len(t.started) : t.started[m] = <<d.idx, k>>}) = 1
                 /\ d.ret <=> \E k \in 1..Len(acts) : ReportsSuccess(acts[k], d.outcomes[k])
                 /\ Len(acts) = 0 => ~d.ret
        /\ t.phase = "await" =>
              LET acts == t.list[t.i].actions
              IN /\ Len(t.results) = Len(acts)
                 /\ \A k \in 1..Len(acts) :
                       /\ \E m \in 1..Len(t.started) : t.started[m] = <<t.i, k>>
                       /\ t.results[k] # "pending" =>
                             (t.results[k] = "true" <=> ReportsSuccess(acts[k], t.outcomes[k]))

\* C4 witness: in one invocation triggerAlert returned true for an alert
\* whose webhook failed while its in-app action succeeded, and false for an
\* alert without actions.
C4_Witness ==
    \E j1, j2 \in 1..Len(lastTick.dispatched) :
        LET d1 == lastTick.dispatched[j1]
            d2 == lastTick.dispatched[j2]
        IN /\ Len(d1.outcomes) = 2
           /\ d1.outcomes[1] \in {"http_error", "network_error"}
           /\ d1.ret
           /\ lastTick.list[d2.idx].actions = <<>>
           /\ ~d2.ret

\* C5: a disabled alert is never evaluated to true and never dispatched:
\* evaluateAlert is false for it in every Context, none of its actions is
\* started and no invocation of checkAlerts returns it.
C5_DisabledNeverDispatched ==
    /\ \A i \in 1..Len(alerts) :
          ~alerts[i].enabled => evaluateAlert(alerts[i], context) = "false"
    /\ \A t \in TickRecords : \A i \in 1..Len(t.list) :
          ~t.list[i].enabled =>
              /\ ~Dispatched(t, i)
              /\ ~Returned(t, i)
              /\ \A j \in 1..Len(t.dispatched) : t.dispatched[j].idx # i

\* C5 witness: an invocation went over a disabled alert with a spike
\* condition and, in the same Context, dispatched an enabled alert with the
\* same condition.
C5_Witness ==
    \E i, k \in 1..Len(lastTick.list) :
        /\ ~lastTick.list[i].enabled
        /\ lastTick.list[i].conditions = <<SpikeCondition>>
        /\ \E j \in 1..Len(lastTick.evaluated) : lastTick.evaluated[j] = i
        /\ lastTick.list[k].enabled
        /\ lastTick.list[k].conditions = <<SpikeCondition>>
        /\ Dispatched(lastTick, k)
        /\ context.snapshots = SnapshotsOf(<<5, 5, 50>>)

\* C6: an error raised for one alert does not keep the remaining alerts of
\* the list from being evaluated in the same invocation: an invocation that
\* has ended has evaluated every alert of its list.
C6_ErrorIsolatedPerAlert ==
    \A t \in TickRecords :
        t.phase \in {"done", "rejected"} =>
            \A i \in 1..Len(t.list) : \E j \in 1..Len(t.evaluated) : t.evaluated[j] = i

\* ------------------------------------------------------------------------
\* Properties of the source resolver (SpecResolver)
\* ------------------------------------------------------------------------

\* the text of item t contains one of the keywords, case-insensitively
MatchesKeyword(t, keywords) ==
    \E k \in 1..Len(keywords) : includes(toLowerCase(t.text), toLowerCase(keywords[k]))

\* C3: source resolution is total: every response carries at least one
\* item, and a response of the synthetic tier carries exactly maxItems items.
C3_ResolutionTotal ==
    pc = "done" =>
        /\ Len(response.tweets) > 0
        /\ response.source = "mock" => Len(response.tweets) = ParamMax(request)

\* C7: a response that comes from the feed tier, the secondary or the
\* tertiary provider carries a non-empty item set: a tier that succeeds
\* with zero items is passed over for the next tier.
C7_EmptyTierFallsThrough ==
    (pc = "done" /\ response.source \in {"rss", "newsapi", "x_api"}) =>
        Len(response.tweets) > 0

\* priority of a tier
TierRank(tier) ==
    CASE tier = "rss" -> 1 [] tier = "newsapi" -> 2 [] tier = "x_api" -> 3 [] OTHER -> 4

Called(tier) == \E p \in 1..Len(calls) : calls[p] = tier

\* the merged feed items that pass the keyword filter, when one is configured
FeedMatches ==
    {i \in 1..Len(rss.tweets) :
        Len(ParamKeywords(request)) = 0 \/ MatchesKeyword(rss.tweets[i], ParamKeywords(request))}

\* the tier has failed, is unconfigured or produced nothing
NoResult(tier) ==
    CASE tier = "rss" ->
            Called("rss") /\ pc # "rss" /\ FeedMatches = {}
      [] tier = "newsapi" ->
            \/ ~request.NEWSAPI_KEY
            \/ newsResult.kind \in {"network_error", "http_error"}
            \/ newsResult.kind = "body" /\ (newsResult.status # "ok" \/ newsResult.articles = <<>>)
      [] tier = "x_api" ->
            \/ ~request.X_BEARER_TOKEN
            \/ xResult.kind = "error"
            \/ xResult.kind = "body" /\ (xResult.data = None \/ xResult.data[1] = <<>>)
      [] OTHER -> FALSE

\* the items of the response are items the tier produced
CarriesItemsOf(tier) ==
    CASE tier = "rss" ->
            \A i \in 1..Len(response.tweets) :
                \E m \in 1..Len(rss.tweets) : rss.tweets[m] = response.tweets[i]
      [] tier = "newsapi" ->
            /\ newsResult.kind = "body"
            /\ Len(response.tweets) = Len(newsResult.articles)
            /\ \A i \in 1..Len(response.tweets) :
                  response.tweets[i].createdAt = newsResult.articles[i].publishedAt
      [] tier = "x_api" ->
            /\ xResult.kind = "body"
            /\ xResult.data # None => Len(response.tweets) = Len(xResult.data[1])
            /\ \A i \in 1..Len(response.tweets) :
                  response.tweets[i].id = xResult.data[1][i].id
      [] OTHER ->
            \A i \in 1..Len(response.tweets) : response.tweets[i].id = <<"mock", i>>

C9_KeywordFilterEveryTier ==
    (pc = "done" /\ Len(ParamKeywords(request)) > 0) =>
        \A i \in 1..Len(response.tweets) :
            MatchesKeyword(response.tweets[i], ParamKeywords(request))

\* the merged tweets that came from feed id
TweetsOfFeed(id) == {i \in 1..Len(rss.tweets) : rss.tweets[i].id[2] = id}

\* the diagnostics that name feed name
ErrorsOfFeed(name) == {i \in 1..Len(rss.errors) : rss.errors[i][1] = name}

\* C10: fetchAllRssFeeds waits for all selected feeds, and each selected
\* feed contributes either all of its fetched items to the merged list or
\* exactly one diagnostic to the errors list, never both and never neither.
C10_FeedFailureIsolated ==
    LET sources == SelectedFeeds(ParamSources(request))
    IN IF pc = "rss"
       THEN /\ rss = [tweets |-> <<>>, errors |-> <<>>]
            /\ \E i \in 1..Len(feedResults) : feedResults[i].status = "pending"
       ELSE Called("rss") =>
            /\ Len(feedResults) = Len(sources)
            /\ \A i \in 1..Len(sources) :
                  \/ /\ feedResults[i].status = "fulfilled"
                     /\ Cardinality(TweetsOfFeed(sources[i].id)) = Len(feedResults[i].value)
                     /\ \A k \in 1..Len(feedResults[i].value) :
                           \E m \in TweetsOfFeed(sources[i].id) :
                              rss.tweets[m] = feedResults[i].value[k]
                     /\ ErrorsOfFeed(sources[i].name) = {}
                  \/ /\ feedResults[i].status = "rejected"
                     /\ Cardinality(ErrorsOfFeed(sources[i].name)) = 1
                     /\ TweetsOfFeed(sources[i].id) = {}
            /\ Len(rss.tweets) = Cardinality(UNION {TweetsOfFeed(sources[i].id) : i \in 1..Len(sources)})
            /\ Len(rss.errors) = Cardinality(UNION {ErrorsOfFeed(sources[i].name) : i \in 1..Len(sources)})

\* C10 witness: of the selected feeds one was rejected and another one
\* delivered items, and fetchAllRssFeeds has returned.
C10_Witness ==
    /\ pc # "rss"
    /\ \E i, j \in 1..Len(feedResults) :
          /\ feedResults[i].status = "rejected"
          /\ feedResults[j].status = "fulfilled"
          /\ Len(feedResults[j].value) > 0
    /\ Len(rss.tweets) > 0
    /\ Len(rss.errors) > 0

\* ------------------------------------------------------------------------
\* Order and size of the response (SpecResolver)
\* ------------------------------------------------------------------------

IdsOf(tweets) == [i \in 1..Len(tweets) |-> tweets[i].id]

NewestFirst(tweets) ==
    \A i \in 1..Len(tweets), j \in 1..Len(tweets) :
        i < j => tweets[i].createdAt >= tweets[j].createdAt

\* every feed of the request has completed
AllFeedsCompleted ==
    /\ Len(parsed) > 0
    /\ \A i \in 1..Len(parsed) : parsed[i].status # "pending"

\* the orders in which n feeds can complete: order[i] is the rank of feed i
CompletionOrders(n) ==
    {order \in [1..n -> 1..n] : \A i \in 1..n, j \in 1..n : i # j => order[i] # order[j]}

\* what fetchAllRssFeeds returns when the feeds answer as in parsed and
\* complete in the given order
MergedFor(order) ==
    LET sources == SelectedFeeds(ParamSources(request))
        results == [i \in 1..Len(parsed) |->
                       IF parsed[i].status = "fulfilled"
                       THEN Fulfilled(fetchRssFeed(sources[i], FeedLimit(request),
                                                   parsed[i].value,
                                                   RequestTime + order[i] - 1))
                       ELSE parsed[i]]
    IN fetchAllRssFeeds(sources, results).tweets

\* the items the feed tier hands to the response for a merged list
CutFor(merged) ==
    Take(IF Len(ParamKeywords(request)) > 0
         THEN filterByKeywords(merged, ParamKeywords(request)) ELSE merged,
         ParamMax(request))

\* C11: once every feed has completed, the merged list is ordered by
\* createdAt descending and lists the same items in the same order as for
\* every other order of completion of the same feed answers; a response of
\* the feed tier keeps that order through the keyword filter and the cut.
C11_MergedOrderStable ==
    AllFeedsCompleted =>
        /\ NewestFirst(rss.tweets)
        /\ \A order \in CompletionOrders(Len(parsed)) :
               IdsOf(MergedFor(order)) = IdsOf(rss.tweets)
        /\ response.source = "rss" =>
               /\ NewestFirst(response.tweets)
               /\ \A order \in CompletionOrders(Len(parsed)) :
                      IdsOf(CutFor(MergedFor(order))) = IdsOf(response.tweets)

\* C12: a response never carries more than maxItems items, maxItems being
\* the requested max capped at 50 (20 when absent), whichever tier produced
\* it and however many items the provider returned.
C12_AtMostMaxItems ==
    pc = "done" => Len(response.tweets) <= ParamMax(request)

\* ------------------------------------------------------------------------
\* The snapshot history (SpecVelocityStore, SpecVelocityViews)
\* ------------------------------------------------------------------------

\* history holds the newest min(Len(log), capacity) snapshots of log, oldest
\* first
IsRingBufferOf(history, log, capacity) ==
    LET n == Min(Len(log), capacity)
    IN history = SubSeq(log, Len(log) - n + 1, Len(log))

\* C13: the retained history of the store holds min(number of snapshots
\* supplied since the last clear, 60) snapshots, and they are the newest
\* ones supplied, in insertion order, oldest first (so appending to a full
\* history drops exactly the oldest snapshot).
C13_StoreIsRingBuffer ==
    IsRingBufferOf(velocityStore.snapshots, storeLog, HistoryCapacity)

\* C13 for the histories of the page (capacity 60) and of the stream hook
\* (capacity historyLength)
C13_ViewsAreRingBuffers ==
    /\ IsRingBufferOf(velocityData, pageLog, HistoryCapacity)
    /\ IsRingBufferOf(stream.snapshots, streamLog, historyLength)

\* C14: the derived fields of the store agree with the retained history:
\* averageVelocity is the mean of the counts, peakVelocity the largest
\* count, currentVelocity the count of the newest snapshot, and all three
\* are 0 for an empty history.
C14_DerivedFieldsAgree ==
    LET h == velocityStore.snapshots
        avg == velocityStore.averageVelocity
    IN IF h = <<>>
       THEN /\ avg.num = 0
            /\ velocityStore.peakVelocity = 0
            /\ velocityStore.currentVelocity = 0
       ELSE /\ avg.den > 0
            /\ avg.num * Len(h) = SumSeq(Counts(h)) * avg.den
            /\ \E i \in 1..Len(h) : h[i].count = velocityStore.peakVelocity
            /\ \A i \in 1..Len(h) : h[i].count <= velocityStore.peakVelocity
            /\ velocityStore.currentVelocity = h[Len(h)].count

\* a full history whose oldest snapshot was dropped by addSnapshot, with
\* the newest count below the peak and the mean no integer
C14_Witness ==
    /\ storeAdds >= 2
    /\ Len(velocityStore.snapshots) = HistoryCapacity
    /\ Len(storeLog) > HistoryCapacity
    /\ velocityStore.currentVelocity = 5
    /\ velocityStore.peakVelocity > 5
    /\ velocityStore.averageVelocity.num % velocityStore.averageVelocity.den # 0

\* ------------------------------------------------------------------------
\* The spike detector (SpecDetector)
\* ------------------------------------------------------------------------

\* detectSpike has been applied to the history of the Context
Detected == probe.op = "detectSpike"

\* the threshold the call used
UsedThreshold == IF probe.thresholdPercent = None THEN 300 ELSE probe.thresholdPercent[1]

\* the count of the most recent snapshot and the sum of the earlier counts
CurrentOf(h) == h[Len(h)].count

EarlierSum(h) == SumSeq([i \in 1..(Len(h) - 1) |-> h[i].count])

\* C15: for a history of fewer than two snapshots and every threshold,
\* detectSpike reports no spike with severity low, and currentCount is the
\* count of the single snapshot, or 0 for the empty history.
C15_ShortHistoryNoSpike ==
    LET h == context.snapshots
    IN (Detected /\ Len(h) < 2) =>
          /\ ~verdict.isSpike
          /\ verdict.severity = "low"
          /\ verdict.currentCount = (IF Len(h) = 1 THEN h[1].count ELSE 0)

\* a single snapshot whose count is above every absolute bound
C15_Witness ==
    /\ Detected
    /\ Len(context.snapshots) = 1
    /\ context.snapshots[1].count = 51
    /\ probe.thresholdPercent = Some(0)
    /\ ~verdict.isSpike

\* C16: for a history of at least two snapshots whose earlier snapshots all
\* have count 0, detectSpike reports a spike exactly when the most recent
\* count is above 10, whatever the threshold, with severity high above 50,
\* medium above 20, low otherwise.
C16_ZeroBaselineAbsolute ==
    LET h == context.snapshots
    IN (Detected /\ Len(h) >= 2 /\ \A i \in 1..(Len(h) - 1) : h[i].count = 0) =>
          /\ verdict.isSpike <=> CurrentOf(h) > 10
          /\ verdict.severity = (CASE CurrentOf(h) > 50 -> "high"
                                   [] CurrentOf(h) > 20 /\ CurrentOf(h) <= 50 -> "medium"
                                   [] OTHER -> "low")

\* a zero baseline with the most recent count on the bound 50: a spike of
\* severity medium although the threshold is 900
C16_Witness ==
    /\ Detected
    /\ context.snapshots = SnapshotsOf(<<0, 0, 50>>)
    /\ probe.thresholdPercent = Some(900)
    /\ verdict.isSpike
    /\ verdict.severity = "medium"

Evaluated(type) == probe.op = "evaluateCondition" /\ probe.condition.type = type

\* kw occurs in text when the case of the letters is ignored
ContainsIgnoringCase(text, kw) ==
    \E o \in 0..(Len(text) - Len(kw)) :
        \A j \in 1..Len(kw) : LowerChar(text[o + j]) = LowerChar(kw[j])

\* the keywords of the evaluated condition, none when the list is absent
ConfiguredKeywords ==
    IF probe.condition.keywords = None THEN <<>> ELSE probe.condition.keywords[1]

\* C18: a keyword_match condition (with keywords that are strings) is true
\* exactly when one of the 50 most recent items of the Context has a text
\* that contains, ignoring case, one of the configured keywords; with an
\* empty or absent keyword list it is false.
C18_KeywordMatch ==
    (Evaluated("keyword_match")
        /\ \A k \in 1..Len(ConfiguredKeywords) : ConfiguredKeywords[k].isString) =>
       LET tweets == probe.context.tweets
           hit == \E i \in 1..Len(tweets) :
                     /\ i <= 50
                     /\ \E k \in 1..Len(ConfiguredKeywords) :
                            ContainsIgnoringCase(tweets[i].text, ConfiguredKeywords[k].chars)
       IN /\ verdict.result \in {"true", "false"}
          /\ verdict.result = "true" <=> hit
          /\ Len(ConfiguredKeywords) = 0 => verdict.result = "false"

\* the keyword Btc matches the text BTC of the 50th item
C18_Witness ==
    /\ Evaluated("keyword_match")
    /\ probe.condition.keywords = Some(<<Kw(<<"B", "t", "c">>)>>)
    /\ Len(probe.context.tweets) = 50
    /\ verdict.result = "true"

\* C19: a sentiment_shift condition is false when fewer than 10 of the
\* recent items carry sentiment; otherwise it is true exactly when the
\* absolute value of the sum of the scores of the 20 most recent items
\* divided by their number is at least the threshold of the condition (0.5
\* when none is configured).
C19_SentimentShift ==
    Evaluated("sentiment_shift") =>
       LET recent == Take(probe.context.tweets, 20)
           carrying == Cardinality({i \in 1..Len(recent) : recent[i].sentiment # None})
           threshold == IF probe.condition.threshold = None THEN 50
                        ELSE probe.condition.threshold[1]
           total == SumSeq([i \in 1..Len(recent) |->
                              IF recent[i].sentiment = None THEN 0
                              ELSE recent[i].sentiment[1]])
       IN IF carrying < 10 THEN verdict.result = "false"
          ELSE verdict.result = "true" <=> Abs(total) >= threshold * Len(recent)

\* C20: a velocity_spike condition with threshold T is true exactly when
\* detectSpike applied to the history of the Context with thresholdPercent
\* T reports a spike, for every configured T, 0 included; 300 is used only
\* when no threshold is configured.
C20_VelocitySpikeThreshold ==
    Evaluated("velocity_spike") =>
       LET T == IF probe.condition.threshold = None THEN 300
                ELSE probe.condition.threshold[1]
       IN verdict.result = "true" <=> detectSpike(probe.context.snapshots, T).isSpike

\* s is a prefix of u
IsPrefix(s, u) == Len(s) <= Len(u) /\ SubSeq(u, 1, Len(s)) = s

\* the invocation t is the invocation u at a later point of its loop
ContinuesAs(t, u) ==
    /\ u.list = t.list
    /\ IsPrefix(t.evaluated, u.evaluated)
    /\ IsPrefix(t.started, u.started)
    /\ IsPrefix(t.dispatched, u.dispatched)

\* a step in which checkAlerts is entered
TickStarts ==
    \/ Len(ticks') > Len(ticks)
    \/ ticks' = ticks /\ lastTick' # lastTick /\ lastTick'.phase # "none"

\* C21: while the engine is stopped (from the return of stopMonitoring to
\* the next startMonitoring) no timer is active and no invocation of
\* checkAlerts begins; an invocation in progress is not interrupted by any
\* step, stopMonitoring included: it stays in progress with what it has done
\* so far, or it ends by its return or its own exception.
C21_StopCancelsTimerOnly ==
    [][/\ checkInterval' = 0 => timers' = {}
       /\ TickStarts => checkInterval # 0
       /\ \A n \in 1..Len(ticks) :
             \/ \E m \in 1..Len(ticks') : ContinuesAs(ticks[n], ticks'[m])
             \/ /\ ContinuesAs(ticks[n], lastTick')
                /\ lastTick'.phase \in {"done", "rejected"}]_vars

\* the engine was stopped while an invocation awaits a webhook
C21_Witness ==
    /\ checkInterval = 0
    /\ timers = {}
    /\ Len(ticks) >= 1
    /\ ticks[1].phase = "await"

\* C22: at most one repeating timer is active after any sequence of
\* startMonitoring and stopMonitoring: the one whose handle the engine
\* holds, none when it holds no handle.
C22_AtMostOneTimer ==
    /\ Cardinality(timers) <= 1
    /\ timers = IF checkInterval = 0 THEN {} ELSE {checkInterval}

\* startMonitoring was called while a timer existed: the second handle is
\* the only active timer
C22_Witness ==
    /\ checkInterval = 2
    /\ timers = {2}

\* a text that is a webhook URL: https:// and a host
IsWebhookUrl(text) ==
    /\ Len(text) > 8
    /\ SubSeq(text, 1, 8) = <<"h", "t", "t", "p", "s", ":", "/", "/">>
    /\ \A i \in 1..Len(text) : text[i] # " "

\* C23: configuration errors are rejected at creation: no stored alert has
\* an empty condition list, and no stored alert has a discord_webhook
\* action whose URL is malformed.
C23_ConfigurationValidated ==
    \A i \in 1..Len(storedAlerts) :
        /\ Len(storedAlerts[i].conditions) > 0
        /\ \A k \in 1..Len(storedAlerts[i].actions) :
              storedAlerts[i].actions[k].type = "discord_webhook" =>
                 /\ storedAlerts[i].actions[k].webhookUrl # None
                 /\ IsWebhookUrl(storedAlerts[i].actions[k].webhookUrl[1])

\* C24: every call of the resolver eventually returns a response, also when
\* an adapter never answers: a request that awaits a tier is eventually
\* answered.
C24_EveryRequestAnswered ==
    (pc \in {"rss", "newsapi", "x_api"}) ~> (pc = "done")

\* C25: within one invocation the dispatches of different triggered alerts
\* run concurrently: while the invocation awaits the dispatch of an alert,
\* the dispatch of every later alert of the list that triggers in the
\* Context has been started too.
C25_DispatchesConcurrent ==
    \A n \in 1..Len(ticks) :
        LET t == ticks[n]
        IN \A j \in (t.i + 1)..Len(t.list) :
              (/\ \A m \in (t.i + 1)..j : evaluateAlert(t.list[m], context) # "throw"
               /\ evaluateAlert(t.list[j], context) = "true")
                 => Dispatched(t, j)

\* invocation t called triggerAlert for the alert at position k
TriggerAlertCalled(t, k) ==
    \/ \E j \in 1..Len(t.dispatched) : t.dispatched[j].idx = k
    \/ t.phase = "await" /\ t.i = k

\* C26: within one invocation every alert is evaluated against the Context
\* the engine held when the invocation began: an alert the invocation has
\* evaluated was dispatched exactly when it triggers in that Context, and
\* the alerts evaluated are those of the list held at that moment.
C26_ContextFixedPerTick ==
    \A t \in TickRecords :
        /\ \A k \in 1..Len(t.evaluated) : t.evaluated[k] = k
        /\ \A k \in 1..Len(t.evaluated) :
              TriggerAlertCalled(t, k) <=> t.atEntry[k] = "true"

\* C27: at most one invocation of checkAlerts is in progress at any time:
\* the timer starts no invocation while an earlier one awaits its
\* dispatches.
C27_AtMostOneTickInProgress == Len(ticks) <= 1

\* C28: the onTweet callback of a stream is invoked only while that stream
\* runs, never after stopMockStream (or the cleanup function) returned, the
\* items of a spike generated before the stop included; at most one stream
\* interval is active, and isStreamRunning is true exactly while one is.
C28_StoppedStreamIsSilent ==
    [][/\ lastCall' # lastCall =>
             (streamInterval # 0 /\ lastCall'.stream = streamInterval)
       /\ Cardinality(mockTimers') <= 1
       /\ isStreamRunning' <=> mockTimers' # {}]_vars

\* no two items of the list carry the same id
UniqueIds(list) == \A i, j \in 1..Len(list) : list[i].id = list[j].id => i = j

\* C29: after any sequence of ingestion cycles the list of the page holds at
\* most 100 items and no two items with the same id, whatever the batches
\* contain; a cycle that changes the list puts an item of the newest batch
\* first.
C29_ListCappedAndUnique ==
    [][/\ Len(pageTweets') <= 100
       /\ UniqueIds(pageTweets')
       /\ pageTweets' # pageTweets =>
             \E i \in 1..Len(newTweets') : pageTweets'[1] = newTweets'[i]]_vars

\* severity is medium, high or critical
AboveLow == verdict.severity \in {"medium", "high", "critical"}

\* C30 as stated: for every history and the threshold 300, isSpike is true
\* if and only if severity is medium, high or critical.
C30_OutputsAgree ==
    (Detected /\ UsedThreshold = 300) => (verdict.isSpike <=> AboveLow)

\* C30 as amended: for every history and the threshold 300 a non-spike
\* carries severity low, and a reported spike carries severity medium, high
\* or critical unless the earlier snapshots all have count 0 and the most
\* recent count is 11 to 20 (the absolute branch, where such a spike
\* carries severity low).
C30_OutputsAgreeOffZeroBaseline ==
    LET h == context.snapshots
    IN (Detected /\ UsedThreshold = 300) =>
          /\ ~verdict.isSpike => verdict.severity = "low"
          /\ (verdict.isSpike /\ ~AboveLow) =>
                /\ Len(h) >= 2
                /\ EarlierSum(h) = 0
                /\ CurrentOf(h) \in 11..20

\* an increase on the threshold itself: 300 percent, a spike of severity
\* medium
C30_Witness ==
    /\ Detected
    /\ UsedThreshold = 300
    /\ context.snapshots = SnapshotsOf(<<5, 5, 20>>)
    /\ verdict.isSpike
    /\ verdict.severity = "medium"

====
